---- MODULE Spec2Model ----
(***************************************************************************)
(* Model of the bank node of src/bank.js: one Node.js process, one MySQL   *)
(* connection whose queries run one at a time in FIFO order, TCP client    *)
(* connections that deliver command lines, and outbound sockets that       *)
(* forward AD/AW/AB commands to another bank.                              *)
(*                                                                         *)
(* A step of the model is one run-to-completion event-loop callback: the   *)
(* handling of one received line (handleCommand and the handler it calls), *)
(* the completion callback of the query at the head of the MySQL queue,    *)
(* one event of an outbound forwarding socket, the idle time-out of a      *)
(* client connection, or one "data" event of a client connection cut into  *)
(* lines.                                                                  *)
(***************************************************************************)
EXTENDS Integers, Sequences, FiniteSets, TLC

\* ---------------------------------------------------------------- bounds
NumConns  == 1     \* client connections
NumIds    == 2     \* account ids the random generator can draw
MaxAmount == 2     \* largest amount a client sends
MaxReq    == 2     \* command lines received in a run
MaxFwd    == 2     \* forwarding sockets made in a run
MaxChunks == 1     \* data events one forwarding socket can see
MaxStream == 6     \* characters one client connection delivers to the framing
MaxData   == 4     \* characters in one data event of a client connection

\* ------------------------------------------------------ program constants
BANK_IP     == "10.1.2.3"
MinAccountId == 10000

\* ------------------------------------------------------------ input sets
PEER_IP    == "10.9.9.9"
Undefined  == "undefined"
Conns      == 1..NumConns
AccountIds == (MinAccountId + 1)..(MinAccountId + NumIds)

\* createAccount refuses at count >= 90000, the number of ids that
\* Math.floor(10000 + Math.random() * 90000) can return: here NumIds.
MaxAccounts == Cardinality(AccountIds)
BankCodes  == {BANK_IP, PEER_IP, Undefined}

\* The server's connections: those of clients, and the one each forwarding
\* socket makes when the host it connects to is this node.
Inbound(i) == NumConns + i
AllConns   == 1..(NumConns + MaxFwd)

\* accountInfo.split("/"): the first part is the account, the second the
\* bank code, undefined when the token holds no "/".
AccountInfos == [account : AccountIds, bankCode : BankCodes]

Digits == {"0", "1", "2", "3", "4", "5", "6", "7", "8", "9"}

DigitVal(ch) ==
  CASE ch = "0" -> 0 [] ch = "1" -> 1 [] ch = "2" -> 2 [] ch = "3" -> 3
    [] ch = "4" -> 4 [] ch = "5" -> 5 [] ch = "6" -> 6 [] ch = "7" -> 7
    [] ch = "8" -> 8 [] ch = "9" -> 9

DigitChar(n) ==
  CASE n = 0 -> "0" [] n = 1 -> "1" [] n = 2 -> "2" [] n = 3 -> "3"
    [] n = 4 -> "4" [] n = 5 -> "5" [] n = 6 -> "6" [] n = 7 -> "7"
    [] n = 8 -> "8" [] n = 9 -> "9"

\* Amount tokens are sequences of characters.
AmountTokens ==
  { <<DigitChar(n)>> : n \in 1..MaxAmount }
    \cup { <<"0">>, <<"-", "1">>, <<"a">>, <<"1", "a">> }

RECURSIVE ParseDigits(_, _, _)
ParseDigits(s, i, acc) ==
  IF i > Len(s) \/ s[i] \notin Digits
    THEN acc
    ELSE ParseDigits(s, i + 1, acc * 10 + DigitVal(s[i]))

\* parseInt(amountStr, 10): optional sign, then the longest digit prefix;
\* NaN when there is no digit.
ParseInt(s) ==
  LET signed == Len(s) > 0 /\ s[1] \in {"-", "+"}
      start  == IF signed THEN 2 ELSE 1
      mag    == ParseDigits(s, start, 0)
  IN  IF start > Len(s) \/ s[start] \notin Digits
        THEN [nan |-> TRUE, n |-> 0]
        ELSE [nan |-> FALSE, n |-> IF signed /\ s[1] = "-" THEN 0 - mag ELSE mag]

\* --------------------------------------------------------- response lines
BC_REPLY     == "BC 10.1.2.3"
ER_FORMAT2   == "ER The bank account number and amount are not in the correct format."
ER_FORMAT1   == "ER The account number format is incorrect."
ER_AMOUNT    == "ER The amount must be a positive number."
ER_NOACCOUNT == "ER Non-existent account."
ER_FUNDS     == "ER Insufficient funds."
ER_HASFUNDS  == "ER Cannot delete an account with funds."
ER_CAPACITY  == "ER Our bank currently does not allow the creation of new accounts."
ER_UNKNOWN   == "ER Unknown command"
ER_PEER      == "ER Failed to contact another bank."
ER_TIMEOUT   == "ER Timeout occurred."
AB_DECORATED == "AB <moneybag><val><moneybag>"
BA_NULL      == "BA null"

\* What a peer bank can put in one data event of the forwarding socket.
PeerChunks == { [msg |-> "AD", val |-> 0], [msg |-> ER_NOACCOUNT, val |-> 0] }

\* What a data event of a forwarding socket can carry at all.
Chunks == PeerChunks \cup { [msg |-> ER_PEER, val |-> 0] }

VARIABLES
  accounts,   \* table accounts: id -> balance
  queue,      \* queries queued on the single MySQL connection, head runs next
  arrivals,   \* command lines received so far, over all connections
  pending,    \* per connection: how many of its commands have not reached their answer yet
  forwards,   \* outbound sockets made by forwardCommandToBank, in creation order
  wrote,      \* the socket.write of the last step, NoWrite when it wrote nothing
  running,    \* FALSE once an uncaught exception has ended the process
  solo,       \* the last line came when nothing was in flight, and is a command that waits
  expected,   \* per id: balance at start (0 at insert) + amounts answered AD - amounts answered AW
  removed,    \* ids deleted by an answered AR and not inserted again since
  amountStr,  \* amountStr of the deposit or withdrawal the last step received, << >> otherwise
  ended,      \* per connection: the server has called socket.end()
  buffer,     \* one connection's data handler: the characters not yet dispatched
  dispatched, \* the lines that handler has passed to handleCommand, in order
  consumed    \* all the characters its data events have delivered, in order

vars == <<accounts, queue, arrivals, pending, forwards, wrote, running, solo, expected,
          removed, amountStr, ended, buffer, dispatched, consumed>>

NoWrite == [conn |-> 0, msg |-> "", val |-> 0]

RECURSIVE SumOver(_, _)
SumOver(f, S) ==
  IF S = {} THEN 0
  ELSE LET a == CHOOSE x \in S : TRUE IN f[a] + SumOver(f, S \ {a})

ForwardsActive == \E i \in 1..Len(forwards) : forwards[i].st # "closed"

\* No request is in flight: nothing queued at MySQL, no forward open.
Quiet == queue = <<>> /\ ~ForwardsActive

SumBalances == SumOver(accounts, DOMAIN accounts)

\* SELECT SUM(balance) AS totalAmount FROM accounts: NULL over an empty table.
SqlSum ==
  IF DOMAIN accounts = {}
    THEN [null |-> TRUE, n |-> 0]
    ELSE [null |-> FALSE, n |-> SumBalances]

\* SELECT COUNT(*) AS count FROM accounts
SqlCount == Cardinality(DOMAIN accounts)

Query(sql, kind, c, account, bankCode, amount) ==
  [sql |-> sql, kind |-> kind, conn |-> c, account |-> account,
   bankCode |-> bankCode, amount |-> amount, newBalance |-> 0]

Followup(q, sql, account, newBalance) ==
  [q EXCEPT !.sql = sql, !.account = account, !.newBalance = newBalance]

\* The process starts on the table MySQL kept: here an empty one, or one
\* where every id is taken by an account not yet funded.
Init ==
  /\ accounts \in { [a \in S |-> 0] : S \in {{}, AccountIds} }
  /\ queue = <<>>
  /\ arrivals = 0
  /\ pending = [c \in AllConns |-> 0]
  /\ forwards = <<>>
  /\ wrote = NoWrite
  /\ running = TRUE
  /\ solo = FALSE
  /\ expected = [a \in AccountIds |-> 0]
  /\ removed = {}
  /\ amountStr = << >>
  /\ ended = [c \in AllConns |-> FALSE]
  /\ buffer = << >>
  /\ dispatched = << >>
  /\ consumed = << >>

\* ------------------------------------------------- decisions of the handlers

\* deposit/withdraw: isNaN(amount) || amount <= 0
BadAmount(p) == p.nan \/ p.n <= 0

\* deposit/withdraw/checkBalance: bankCode !== BANK_IP sends the command away
IsRemote(bankCode) == bankCode # BANK_IP

\* client.connect(PORT, bankIP): without a host (bankIP undefined) the socket
\* connects to localhost, where this node listens on PORT.
ResolvesHere(bankIP) == bankIP = Undefined

\* removeAccount tests !isValidAccount(account, bankCode); isValidAccount
\* returns a Promise, and the value tested is the Promise object itself.
IsValidAccount(account, bankCode) == TRUE

\* a deposit that stores the balance it read
DepositForgetsAmount(balance, amount) == balance

\* deposit: newBalance = results[0].balance + amount
DepositNewBalance(balance, amount) == balance + amount

\* a funds test that refuses the withdrawal of the whole balance
FundsTestStrict(balance, amount) == balance <= amount

\* a funds test that lets every withdrawal through
FundsTestOff(balance, amount) == FALSE

\* withdraw: results[0].balance < amount
InsufficientFunds(balance, amount) == balance < amount

\* withdraw: newBalance = results[0].balance - amount
WithdrawNewBalance(balance, amount) == balance - amount

\* a removal that does not look at the balance
HasFundsOff(balance) == FALSE

\* removeAccount: results[0].balance > 0
HasFunds(balance) == balance > 0

\* --------------------------------------------------------------- plumbing

\* socket.write(line) on connection c; after socket.end() a write sends
\* nothing (the socket emits an error, which its "error" handler logs)
Write(c, msg, val) ==
  wrote' = IF ended[c] THEN NoWrite ELSE [conn |-> c, msg |-> msg, val |-> val]

\* A callback that is no "data" or "timeout" event of a client connection.
Callback ==
  /\ amountStr' = << >>
  /\ UNCHANGED <<ended, buffer, dispatched, consumed>>

\* socket.write(line) that is the first answer to a waiting command of c
Answer(c, msg, val) ==
  /\ Write(c, msg, val)
  /\ pending' = [pending EXCEPT ![c] = @ - 1]

\* a "data" event delivers one line to handleCommand
Accept(c) ==
  /\ running
  /\ arrivals < MaxReq
  /\ arrivals' = arrivals + 1
  /\ UNCHANGED <<ended, buffer, dispatched, consumed>>

\* the handler answers at once
AnswerNow(c, msg, val) ==
  /\ Write(c, msg, val)
  /\ solo' = FALSE
  /\ UNCHANGED <<accounts, queue, pending, forwards, running, expected, removed>>

\* the handler hands queries to MySQL and returns
Enqueue(c, qs) ==
  /\ queue' = queue \o qs
  /\ pending' = [pending EXCEPT ![c] = @ + 1]
  /\ wrote' = NoWrite
  /\ solo' = Quiet
  /\ UNCHANGED <<accounts, forwards, running, expected, removed>>

\* forwardCommandToBank(bankIP, command, socket): a new socket starts to connect
Forward(c, bankIP, cmd, info, amount) ==
  /\ Len(forwards) < MaxFwd
  /\ forwards' = Append(forwards,
        [conn |-> c, st |-> "connecting", here |-> ResolvesHere(bankIP),
         command |-> [cmd |-> cmd, info |-> info, amount |-> amount],
         got |-> <<>>, relayed |-> <<>>])
  /\ pending' = [pending EXCEPT ![c] = @ + 1]
  /\ wrote' = NoWrite
  /\ solo' = Quiet
  /\ UNCHANGED <<accounts, queue, running, expected, removed>>

\* --------------------------------------------- handleCommand, line by line

\* if (!command) return
RecvBlank(c) ==
  /\ Accept(c)
  /\ amountStr' = << >>
  /\ wrote' = NoWrite
  /\ solo' = FALSE
  /\ UNCHANGED <<accounts, queue, pending, forwards, running, expected, removed>>

RecvBC(c) ==
  /\ Accept(c)
  /\ amountStr' = << >>
  /\ AnswerNow(c, BC_REPLY, 0)

RecvUnknown(c) ==
  /\ Accept(c)
  /\ amountStr' = << >>
  /\ AnswerNow(c, ER_UNKNOWN, 0)

RecvAC(c) ==
  /\ Accept(c)
  /\ amountStr' = << >>
  /\ Enqueue(c, << Query("COUNT", "AC", c, 0, Undefined, 0) >>)

RecvBA(c) ==
  /\ Accept(c)
  /\ amountStr' = << >>
  /\ Enqueue(c, << Query("SUM", "BA", c, 0, Undefined, 0) >>)

RecvBN(c) ==
  /\ Accept(c)
  /\ amountStr' = << >>
  /\ Enqueue(c, << Query("COUNT", "BN", c, 0, Undefined, 0) >>)

\* deposit(socket, args) up to its first query
RecvAD(c, args) ==
  /\ Accept(c)
  /\ amountStr' = IF Len(args) = 2 THEN args[2] ELSE << >>
  /\ IF Len(args) # 2
       THEN AnswerNow(c, ER_FORMAT2, 0)
       ELSE LET info   == args[1]
                amount == ParseInt(args[2])
            IN  IF BadAmount(amount)
                  THEN AnswerNow(c, ER_AMOUNT, 0)
                  ELSE IF IsRemote(info.bankCode)
                    THEN Forward(c, info.bankCode, "AD", info, amount.n)
                    ELSE Enqueue(c, << Query("SELECT", "AD", c, info.account,
                                             info.bankCode, amount.n) >>)

\* withdraw(socket, args) up to its first query
RecvAW(c, args) ==
  /\ Accept(c)
  /\ amountStr' = IF Len(args) = 2 THEN args[2] ELSE << >>
  /\ IF Len(args) # 2
       THEN AnswerNow(c, ER_FORMAT2, 0)
       ELSE LET info   == args[1]
                amount == ParseInt(args[2])
            IN  IF BadAmount(amount)
                  THEN AnswerNow(c, ER_AMOUNT, 0)
                  ELSE IF IsRemote(info.bankCode)
                    THEN Forward(c, info.bankCode, "AW", info, amount.n)
                    ELSE Enqueue(c, << Query("SELECT", "AW", c, info.account,
                                             info.bankCode, amount.n) >>)

\* checkBalance(socket, args) up to its query
RecvAB(c, args) ==
  /\ Accept(c)
  /\ amountStr' = << >>
  /\ IF Len(args) # 1
       THEN AnswerNow(c, ER_FORMAT1, 0)
       ELSE LET info == args[1]
            IN  IF IsRemote(info.bankCode)
                  THEN Forward(c, info.bankCode, "AB", info, 0)
                  ELSE Enqueue(c, << Query("SELECT", "AB", c, info.account,
                                           info.bankCode, 0) >>)

\* removeAccount: isValidAccount queues its own SELECT id before the test
\* on its return value, then removeAccount queues SELECT balance.
RecvAR(c, args) ==
  /\ Accept(c)
  /\ amountStr' = << >>
  /\ IF Len(args) # 1
       THEN AnswerNow(c, ER_FORMAT1, 0)
       ELSE LET info == args[1]
                q    == Query("SELECT", "AR", c, info.account, info.bankCode, 0)
            IN  IF ~IsValidAccount(info.account, info.bankCode)
                  THEN /\ queue' = Append(queue, [q EXCEPT !.sql = "SELECT_ID"])
                       /\ Write(c, ER_FORMAT1, 0)
                       /\ solo' = FALSE
                       /\ UNCHANGED <<accounts, pending, forwards, running, expected, removed>>
                  ELSE Enqueue(c, << [q EXCEPT !.sql = "SELECT_ID"], q >>)

MoneyArgs == { <<>> } \cup { <<i, t>> : i \in AccountInfos, t \in AmountTokens }
RefArgs   == { <<>> } \cup { <<i>> : i \in AccountInfos }

\* Arguments whose reference names this bank.
LocalMoneyArgs == { a \in MoneyArgs : Len(a) = 2 => a[1].bankCode = BANK_IP }
LocalRefArgs   == { a \in RefArgs : Len(a) = 1 => a[1].bankCode = BANK_IP }

\* ------------------------------------- completion callbacks of the queries
\* MySQL runs the head of the queue; its callback runs before the next query
\* starts, and the queries the callback makes join the tail of the queue.

Head1 == Head(queue)

Runs(sql, kind) ==
  /\ running
  /\ queue # <<>>
  /\ Head1.sql = sql
  /\ Head1.kind = kind

Present(a) == a \in DOMAIN accounts

\* createAccount, callback of SELECT COUNT(*): the capacity test, then
\* generateUniqueAccountId (its loop ends after one draw, the test being on
\* the Promise isUniqueAccountId returns), then the INSERT.
CountDoneAC ==
  /\ Runs("COUNT", "AC")
  /\ Callback
  /\ IF SqlCount >= MaxAccounts
       THEN /\ queue' = Tail(queue)
            /\ Answer(Head1.conn, ER_CAPACITY, 0)
       ELSE \E accountId \in AccountIds :
              /\ queue' = Tail(queue) \o
                    << Followup(Head1, "SELECT_ID", accountId, 0),
                       Followup(Head1, "INSERT", accountId, 0) >>
              /\ wrote' = NoWrite
              /\ UNCHANGED pending
  /\ UNCHANGED <<accounts, arrivals, forwards, running, solo, expected, removed>>

\* bankNumberOfClients, callback of SELECT COUNT(*)
CountDoneBN ==
  /\ Runs("COUNT", "BN")
  /\ Callback
  /\ queue' = Tail(queue)
  /\ Answer(Head1.conn, "BN", SqlCount)
  /\ UNCHANGED <<accounts, arrivals, forwards, running, solo, expected, removed>>

\* isUniqueAccountId / isValidAccount, callback of SELECT id: it settles a
\* Promise nobody waits for.
SelectIdDone ==
  /\ running
  /\ queue # <<>>
  /\ Head1.sql = "SELECT_ID"
  /\ Callback
  /\ queue' = Tail(queue)
  /\ wrote' = NoWrite
  /\ UNCHANGED <<accounts, arrivals, pending, forwards, running, solo, expected, removed>>

\* createAccount, callback of the INSERT: a duplicate id is an error, and the
\* callback throws it (uncaught: the process ends).
InsertDone ==
  /\ Runs("INSERT", "AC")
  /\ Callback
  /\ queue' = Tail(queue)
  /\ IF Present(Head1.account)
       THEN /\ running' = FALSE
            /\ wrote' = NoWrite
            /\ UNCHANGED <<accounts, pending, expected, removed>>
       ELSE /\ accounts' = [a \in DOMAIN accounts \cup {Head1.account} |->
                              IF a = Head1.account THEN 0 ELSE accounts[a]]
            /\ Answer(Head1.conn, "AC", Head1.account)
            /\ expected' = [expected EXCEPT ![Head1.account] = 0]
            /\ removed' = removed \ {Head1.account}
            /\ UNCHANGED running
  /\ UNCHANGED <<arrivals, forwards, solo>>

\* deposit, callback of SELECT balance
SelectDoneAD ==
  /\ Runs("SELECT", "AD")
  /\ Callback
  /\ IF ~Present(Head1.account)
       THEN /\ queue' = Tail(queue)
            /\ Answer(Head1.conn, ER_NOACCOUNT, 0)
       ELSE /\ queue' = Append(Tail(queue),
                   Followup(Head1, "UPDATE", Head1.account,
                            DepositNewBalance(accounts[Head1.account], Head1.amount)))
            /\ wrote' = NoWrite
            /\ UNCHANGED pending
  /\ UNCHANGED <<accounts, arrivals, forwards, running, solo, expected, removed>>

\* UPDATE accounts SET balance = ? WHERE id = ?: no row, no error
SqlUpdate(account, newBalance) ==
  IF Present(account) THEN [accounts EXCEPT ![account] = newBalance] ELSE accounts

\* deposit, callback of the UPDATE
UpdateDoneAD ==
  /\ Runs("UPDATE", "AD")
  /\ Callback
  /\ queue' = Tail(queue)
  /\ accounts' = SqlUpdate(Head1.account, Head1.newBalance)
  /\ Answer(Head1.conn, "AD", 0)
  /\ expected' = [expected EXCEPT ![Head1.account] = @ + Head1.amount]
  /\ UNCHANGED <<arrivals, forwards, running, solo, removed>>

\* withdraw, callback of SELECT balance
SelectDoneAW ==
  /\ Runs("SELECT", "AW")
  /\ Callback
  /\ IF ~Present(Head1.account)
       THEN /\ queue' = Tail(queue)
            /\ Answer(Head1.conn, ER_NOACCOUNT, 0)
       ELSE IF InsufficientFunds(accounts[Head1.account], Head1.amount)
         THEN /\ queue' = Tail(queue)
              /\ Answer(Head1.conn, ER_FUNDS, 0)
         ELSE /\ queue' = Append(Tail(queue),
                     Followup(Head1, "UPDATE", Head1.account,
                              WithdrawNewBalance(accounts[Head1.account], Head1.amount)))
              /\ wrote' = NoWrite
              /\ UNCHANGED pending
  /\ UNCHANGED <<accounts, arrivals, forwards, running, solo, expected, removed>>

\* withdraw, callback of the UPDATE
UpdateDoneAW ==
  /\ Runs("UPDATE", "AW")
  /\ Callback
  /\ queue' = Tail(queue)
  /\ accounts' = SqlUpdate(Head1.account, Head1.newBalance)
  /\ Answer(Head1.conn, "AW", 0)
  /\ expected' = [expected EXCEPT ![Head1.account] = @ - Head1.amount]
  /\ UNCHANGED <<arrivals, forwards, running, solo, removed>>

\* checkBalance, callback of SELECT balance
SelectDoneAB ==
  /\ Runs("SELECT", "AB")
  /\ Callback
  /\ queue' = Tail(queue)
  /\ IF ~Present(Head1.account)
       THEN Answer(Head1.conn, ER_NOACCOUNT, 0)
       ELSE Answer(Head1.conn, AB_DECORATED, accounts[Head1.account])
  /\ UNCHANGED <<accounts, arrivals, forwards, running, solo, expected, removed>>

\* removeAccount, callback of SELECT balance
SelectDoneAR ==
  /\ Runs("SELECT", "AR")
  /\ Callback
  /\ IF ~Present(Head1.account)
       THEN /\ queue' = Tail(queue)
            /\ Answer(Head1.conn, ER_NOACCOUNT, 0)
       ELSE IF HasFunds(accounts[Head1.account])
         THEN /\ queue' = Tail(queue)
              /\ Answer(Head1.conn, ER_HASFUNDS, 0)
         ELSE /\ queue' = Append(Tail(queue), Followup(Head1, "DELETE", Head1.account, 0))
              /\ wrote' = NoWrite
              /\ UNCHANGED pending
  /\ UNCHANGED <<accounts, arrivals, forwards, running, solo, expected, removed>>

\* removeAccount, callback of the DELETE
DeleteDone ==
  /\ Runs("DELETE", "AR")
  /\ Callback
  /\ queue' = Tail(queue)
  /\ accounts' = [a \in DOMAIN accounts \ {Head1.account} |-> accounts[a]]
  /\ Answer(Head1.conn, "AR", 0)
  /\ removed' = removed \cup {Head1.account}
  /\ UNCHANGED <<arrivals, forwards, running, solo, expected>>

\* bankTotalAmount, callback of SELECT SUM(balance)
SumDone ==
  /\ Runs("SUM", "BA")
  /\ Callback
  /\ queue' = Tail(queue)
  /\ IF SqlSum.null
       THEN Answer(Head1.conn, BA_NULL, 0)
       ELSE Answer(Head1.conn, "BA", SqlSum.n)
  /\ UNCHANGED <<accounts, arrivals, forwards, running, solo, expected, removed>>

\* The query at the head fails (connection lost, table error).  Every
\* callback starts with `if (error) { log(...); throw error; }`: nothing is
\* written and the exception, caught nowhere, ends the process.  The
\* callback of SELECT id rejects a Promise nobody handles, which ends the
\* process or only warns, depending on the runtime.
QueryError ==
  /\ running
  /\ queue # << >>
  /\ Callback
  /\ queue' = Tail(queue)
  /\ wrote' = NoWrite
  /\ running' \in IF Head1.sql = "SELECT_ID" THEN {TRUE, FALSE} ELSE {FALSE}
  /\ UNCHANGED <<accounts, arrivals, pending, forwards, solo, expected, removed>>

\* ------------------------------------ events of a forwarding socket (client)

\* The command line once client.write has sent it.
Sent == [cmd |-> "", info |-> [account |-> 0, bankCode |-> ""], amount |-> 0]

\* socket.write(line) to the caller of forward i
Relay(i, st, got, msg, val) ==
  /\ forwards' = [forwards EXCEPT ![i] =
        [@ EXCEPT !.st = st, !.got = got, !.command = Sent,
                  !.relayed = Append(@, [msg |-> msg, val |-> val])]]
  /\ Write(forwards[i].conn, msg, val)
  /\ pending' = [pending EXCEPT ![forwards[i].conn] =
                   IF forwards[i].relayed = <<>> THEN @ - 1 ELSE @]

\* client.connect callback: the command line is written to the peer; a line
\* written to this node itself is on its way to the node's own server
FwdConnected(i) ==
  /\ running
  /\ Callback
  /\ i <= Len(forwards)
  /\ forwards[i].st = "connecting"
  /\ forwards' = [forwards EXCEPT ![i] =
        [@ EXCEPT !.st = "sent", !.command = IF forwards[i].here THEN @ ELSE Sent]]
  /\ wrote' = NoWrite
  /\ UNCHANGED <<accounts, queue, arrivals, pending, running, solo, expected, removed>>

\* `${amount}` in the command line forwardCommandToBank is given
FormatInt(n) == << DigitChar(n) >>

\* The server's "data" event on the connection forward i made to this node:
\* the forwarded line goes to handleCommand like a client's line.
RecvForwarded(i) ==
  /\ i <= Len(forwards)
  /\ forwards[i].here
  /\ forwards[i].st = "sent"
  /\ forwards[i].command # Sent
  /\ ~\E j \in 1..Len(forwards) : forwards[j].conn = Inbound(i)
  /\ LET k == forwards[i].command
     IN  CASE k.cmd = "AD" -> RecvAD(Inbound(i), << k.info, FormatInt(k.amount) >>)
           [] k.cmd = "AW" -> RecvAW(Inbound(i), << k.info, FormatInt(k.amount) >>)
           [] k.cmd = "AB" -> RecvAB(Inbound(i), << k.info >>)

\* The lines the server has written on the connection forward i made to it.
WrittenBack(i) ==
  LET js == { j \in 1..Len(forwards) : forwards[j].conn = Inbound(i) }
  IN  IF js = {} THEN << >> ELSE forwards[CHOOSE j \in js : TRUE].relayed

\* What the next "data" event of forward i can carry.
NextChunks(i) ==
  IF forwards[i].here
    THEN IF Len(forwards[i].got) < Len(WrittenBack(i))
           THEN { WrittenBack(i)[Len(forwards[i].got) + 1] }
           ELSE {}
    ELSE PeerChunks

\* client.on("data"): the chunk goes to the caller, client.end() half-closes
FwdData(i, data) ==
  /\ running
  /\ Callback
  /\ i <= Len(forwards)
  /\ forwards[i].st \in {"sent", "ended"}
  /\ data \in NextChunks(i)
  /\ Len(forwards[i].got) < MaxChunks
  /\ Relay(i, "ended", Append(forwards[i].got, data), data.msg, data.val)
  /\ UNCHANGED <<accounts, queue, arrivals, running, solo, expected, removed>>

\* client.on("error"): the fixed error goes to the caller, client.destroy()
FwdError(i) ==
  /\ running
  /\ Callback
  /\ i <= Len(forwards)
  /\ forwards[i].st \in {"connecting", "sent", "ended"}
  /\ Relay(i, "closed", forwards[i].got, ER_PEER, 0)
  /\ UNCHANGED <<accounts, queue, arrivals, running, solo, expected, removed>>

\* client.on("close") after the peer ended the connection: a log line only
FwdClose(i) ==
  /\ running
  /\ Callback
  /\ i <= Len(forwards)
  /\ forwards[i].st \in {"sent", "ended"}
  /\ forwards' = [forwards EXCEPT ![i].st = "closed"]
  /\ wrote' = NoWrite
  /\ UNCHANGED <<accounts, queue, arrivals, pending, running, solo, expected, removed>>

\* ------------------------------------------- socket.on("timeout") of a client

\* a timeout handler that leaves the socket open
SocketStays(c) == ended

\* socket.end()
SocketEnd(c) == [ended EXCEPT ![c] = TRUE]

\* No byte has moved on connection c for TIMEOUT ms, whatever the node still
\* owes it: the notice is written and the socket ended.  A socket whose
\* client keeps its side open can time out again.
Timeout(c) ==
  /\ running
  /\ Write(c, ER_TIMEOUT, 0)
  /\ ended' = SocketEnd(c)
  /\ amountStr' = << >>
  /\ UNCHANGED <<accounts, queue, arrivals, pending, forwards, running, solo,
                 expected, removed, buffer, dispatched, consumed>>

\* ------------------------------------- socket.on("data") of a client: framing

LF    == "\n"
Chars == {"A", " ", LF}

\* What one "data" event can deliver: 1..MaxData characters.
DataChunks == UNION { [1..n -> Chars] : n \in 1..MaxData }

\* buffer.split("\n"): the pieces between the delimiters, the last one being
\* what follows the last delimiter (empty when the text ends with one).
RECURSIVE Split(_, _, _, _)
Split(str, i, piece, pieces) ==
  IF i > Len(str) THEN Append(pieces, piece)
  ELSE IF str[i] = LF THEN Split(str, i + 1, << >>, Append(pieces, piece))
  ELSE Split(str, i + 1, Append(piece, str[i]), pieces)

\* line.trim()
RECURSIVE Trim(_)
Trim(line) ==
  IF line = << >> THEN line
  ELSE IF Head(line) = " " THEN Trim(Tail(line))
  ELSE IF line[Len(line)] = " " THEN Trim(SubSeq(line, 1, Len(line) - 1))
  ELSE line

\* a handler that forgets the unfinished line
PopNothing(lines) == << >>

\* buffer = lines.pop()
Pop(lines) == lines[Len(lines)]

\* socket.on("data"): buffer += data, split, keep the last piece, and pass
\* every other piece, trimmed, to handleCommand
Data(data) ==
  /\ running
  /\ Len(consumed) + Len(data) <= MaxStream
  /\ LET lines == Split(buffer \o data, 1, << >>, << >>)
     IN  /\ buffer' = Pop(lines)
         /\ dispatched' = dispatched \o [k \in 1..(Len(lines) - 1) |-> Trim(lines[k])]
  /\ consumed' = consumed \o data
  /\ wrote' = NoWrite
  /\ amountStr' = << >>
  /\ UNCHANGED <<accounts, queue, arrivals, pending, forwards, running, solo,
                 expected, removed, ended>>

\* ------------------------------------------------------------ specification

Receive ==
  \E c \in Conns :
    \/ RecvBlank(c)
    \/ RecvBC(c)
    \/ RecvUnknown(c)
    \/ RecvAC(c)
    \/ RecvBA(c)
    \/ RecvBN(c)
    \/ \E args \in MoneyArgs : RecvAD(c, args)
    \/ \E args \in MoneyArgs : RecvAW(c, args)
    \/ \E args \in RefArgs : RecvAB(c, args)
    \/ \E args \in RefArgs : RecvAR(c, args)

QueryDone ==
  \/ CountDoneAC
  \/ CountDoneBN
  \/ SelectIdDone
  \/ InsertDone
  \/ SelectDoneAD
  \/ UpdateDoneAD
  \/ SelectDoneAW
  \/ UpdateDoneAW
  \/ SelectDoneAB
  \/ SelectDoneAR
  \/ DeleteDone
  \/ SumDone

ForwardEvent ==
  \E i \in 1..MaxFwd :
    \/ FwdConnected(i)
    \/ RecvForwarded(i)
    \/ \E data \in Chunks : FwdData(i, data)
    \/ FwdError(i)
    \/ FwdClose(i)

\* The whole node: command lines of every kind, local or for another bank,
\* on a store that can fail.
Next == Receive \/ QueryDone \/ QueryError \/ ForwardEvent

Spec == Init /\ [][Next]_vars

\* The node as the owner of its accounts: every command line whose
\* AD/AW/AB reference names this bank, and AR with any reference (AR never
\* forwards).  No forwarding socket exists in these runs, and MySQL
\* executes every query it is given.
ReceiveLocal ==
  \E c \in Conns :
    \/ RecvBlank(c)
    \/ RecvBC(c)
    \/ RecvUnknown(c)
    \/ RecvAC(c)
    \/ RecvBA(c)
    \/ RecvBN(c)
    \/ \E args \in LocalMoneyArgs : RecvAD(c, args)
    \/ \E args \in LocalMoneyArgs : RecvAW(c, args)
    \/ \E args \in LocalRefArgs : RecvAB(c, args)
    \/ \E args \in RefArgs : RecvAR(c, args)

NextLocal == ReceiveLocal \/ QueryDone

SpecLocal == Init /\ [][NextLocal]_vars

\* CheckBalance lines for one account id, with every kind of reference.
IdleArgs == { a \in RefArgs : Len(a) = 1 => a[1].account = MinAccountId + 1 }

ReceiveIdle ==
  \E c \in Conns :
    \/ RecvBC(c)
    \/ \E args \in IdleArgs : RecvAB(c, args)

\* The node with clients that can stay idle: lines answered at once (BC),
\* lines that wait for MySQL (AB for this bank) and lines that wait for
\* another bank (AB forwarded), with a time-out possible at every moment.
NextIdle == ReceiveIdle \/ SelectDoneAB \/ ForwardEvent \/ \E c \in Conns : Timeout(c)

SpecIdle == Init /\ [][NextIdle]_vars

\* One client connection's byte stream, cut into data events at any places.
NextFraming == \E data \in DataChunks : Data(data)

SpecFraming == Init /\ [][NextFraming]_vars

\* A step that is the completion callback of the query at the head of the queue.
Done(sql, kind) ==
  /\ Runs(sql, kind)
  /\ arrivals' = arrivals
  /\ queue' # queue

\* A step that receives a command line of connection c and answers or queues it.
Received(c) ==
  /\ arrivals' = arrivals + 1
  /\ wrote'.conn = c \/ pending'[c] > pending[c]

AllAnswered == \A c \in Conns : pending[c] = 0

TypeOK ==
  /\ \A a \in DOMAIN accounts : accounts[a] \in Int
  /\ DOMAIN accounts \subseteq AccountIds
  /\ \A c \in Conns : pending[c] \in 0..arrivals

\* ------------------------------------------------------------------ claims

\* C1: once every deposit and withdrawal has been answered, each account's
\* balance is its balance at start plus the amounts answered AD minus the
\* amounts answered AW (no lost update).
C1_NoLostUpdate ==
  (running /\ AllAnswered) =>
    \A a \in DOMAIN accounts : accounts[a] = expected[a]

\* C2: a connection's next command line starts to execute only when every
\* earlier command of that connection has been answered.
C2_ResponseBeforeNextRequest ==
  [][\A c \in Conns : Received(c) => pending[c] = 0]_vars

\* C3: a valid deposit into an existing local account, run with nothing else
\* in flight, is answered with the bare AD to its caller and adds the amount
\* to that account's balance, all other balances unchanged.
C3_SoloDeposit ==
  [][/\ (solo /\ Done("SELECT", "AD") /\ Present(Head1.account)) =>
          /\ wrote' = NoWrite
          /\ accounts' = accounts
          /\ Len(queue') = 1 /\ queue'[1].sql = "UPDATE" /\ queue'[1].kind = "AD"
     /\ (solo /\ Done("UPDATE", "AD")) =>
          /\ Present(Head1.account)
          /\ accounts' = [accounts EXCEPT ![Head1.account] = @ + Head1.amount]
          /\ wrote' = [conn |-> Head1.conn, msg |-> "AD", val |-> 0]
    ]_vars

C3_Witness ==
  /\ solo
  /\ wrote.msg = "AD"
  /\ Cardinality(DOMAIN accounts) >= 2
  /\ \E a \in DOMAIN accounts : accounts[a] = MaxAmount

\* C4: a local withdrawal of more than the balance it reads is answered
\* ER Insufficient funds. and writes nothing; a withdrawal of at most the
\* balance it reads (the whole balance included) is answered AW and stores
\* the balance it read minus the amount, which, with nothing else in flight,
\* is the balance before the request minus the amount.
C4_Withdraw ==
  [][/\ (Done("SELECT", "AW") /\ Present(Head1.account)) =>
          IF Head1.amount > accounts[Head1.account]
            THEN /\ wrote' = [conn |-> Head1.conn, msg |-> ER_FUNDS, val |-> 0]
                 /\ accounts' = accounts
                 /\ queue' = Tail(queue)
            ELSE /\ wrote' = NoWrite
                 /\ accounts' = accounts
                 /\ queue' = Append(Tail(queue),
                       [Head1 EXCEPT !.sql = "UPDATE",
                          !.newBalance = accounts[Head1.account] - Head1.amount])
     /\ Done("UPDATE", "AW") =>
          /\ wrote' = [conn |-> Head1.conn, msg |-> "AW", val |-> 0]
          /\ Present(Head1.account) =>
                accounts' = [accounts EXCEPT ![Head1.account] = Head1.newBalance]
          /\ solo => /\ Present(Head1.account)
                      /\ accounts'[Head1.account] = accounts[Head1.account] - Head1.amount
    ]_vars

\* the whole balance has just been withdrawn
C4_Witness ==
  /\ solo
  /\ wrote.msg = "AW"
  /\ DOMAIN accounts # {}
  /\ \A a \in DOMAIN accounts : accounts[a] = 0 /\ expected[a] = 0

\* C5: every account's balance is at least 0 in every reachable state.
C5_BalanceNonNegative ==
  \A a \in DOMAIN accounts : accounts[a] >= 0

\* a withdrawal has just been refused for lack of funds
C5_Witness ==
  /\ wrote.msg = ER_FUNDS
  /\ \E a \in DOMAIN accounts : accounts[a] < MaxAmount

\* C6: the total a BA command reports is the sum of all balances, 0 for a
\* bank without accounts.
C6_TotalIsSum ==
  (wrote.msg = "BA" \/ wrote.msg = BA_NULL) =>
    (wrote.msg = "BA" /\ wrote.val = SumBalances)

\* C7: removing a local account with balance 0 deletes it and answers AR,
\* and a CheckBalance, Deposit, Withdraw or Remove that then looks the
\* removed id up is answered ER Non-existent account.; removing one with
\* balance > 0 is answered ER Cannot delete an account with funds. and
\* changes nothing.
C7_Remove ==
  [][/\ (Done("SELECT", "AR") /\ Head1.bankCode = BANK_IP /\ Present(Head1.account)) =>
          IF accounts[Head1.account] > 0
            THEN /\ wrote' = [conn |-> Head1.conn, msg |-> ER_HASFUNDS, val |-> 0]
                 /\ accounts' = accounts
                 /\ queue' = Tail(queue)
            ELSE /\ wrote' = NoWrite
                 /\ accounts' = accounts
                 /\ queue' = Append(Tail(queue), [Head1 EXCEPT !.sql = "DELETE"])
     /\ (Done("DELETE", "AR") /\ Head1.bankCode = BANK_IP) =>
          /\ wrote' = [conn |-> Head1.conn, msg |-> "AR", val |-> 0]
          /\ ~(Head1.account \in DOMAIN accounts')
          /\ \A a \in DOMAIN accounts' : a \in DOMAIN accounts /\ accounts'[a] = accounts[a]
     /\ \A kind \in {"AB", "AD", "AW", "AR"} :
          (Done("SELECT", kind) /\ Head1.account \in removed) =>
             /\ wrote' = [conn |-> Head1.conn, msg |-> ER_NOACCOUNT, val |-> 0]
             /\ accounts' = accounts
             /\ queue' = Tail(queue)
    ]_vars

\* a command on a removed id, the only id without an account, has just
\* been answered
C7_Witness ==
  /\ removed # {}
  /\ DOMAIN accounts \cup removed = AccountIds
  /\ wrote.msg = ER_NOACCOUNT

\* C8: a RemoveAccount whose reference does not name this bank changes no
\* local account.
C8_ForeignRemoveRejected ==
  [][(Done("DELETE", "AR") /\ Head1.bankCode # BANK_IP) => accounts' = accounts]_vars

\* C9: what has been written to the caller of a forwarded command is
\* exactly what the peer returned.
C9_RelayedIsPeerReply ==
  \A i \in 1..Len(forwards) :
    forwards[i].got # <<>> => forwards[i].relayed = forwards[i].got

\* C10: a forwarding socket that is closed has given its caller an answer.
C10_ClosedForwardAnswered ==
  \A i \in 1..Len(forwards) :
    forwards[i].st = "closed" => forwards[i].relayed # <<>>

\* C11: for each forwarded request at most one line has been written to the
\* caller: the peer's reply or the fixed error, never both, never two.
C11_OneResponsePerForward ==
  \A i \in 1..Len(forwards) : Len(forwards[i].relayed) <= 1

\* C12: forwarding is single-hop: every forwarding socket was made for the
\* command line of a client, none for a line that arrived as a forwarded
\* command.
C12_SingleHop ==
  \A i \in 1..Len(forwards) : forwards[i].conn \in Conns

\* C13: the id createAccount takes from generateUniqueAccountId is the id of
\* no existing account (generation retries on collision), so that the ids
\* of the accounts created are pairwise distinct, and an insert leaves
\* every existing account and its balance as they were.
C13_FreshId ==
  [][/\ (Done("COUNT", "AC") /\ SqlCount < MaxAccounts /\ Len(queue') > Len(queue)) =>
          /\ queue'[Len(queue')].sql = "INSERT"
          /\ queue'[Len(queue')].account \in AccountIds
          /\ ~Present(queue'[Len(queue')].account)
     /\ Done("INSERT", "AC") =>
          \A a \in DOMAIN accounts : a \in DOMAIN accounts' /\ accounts'[a] = accounts[a]
    ]_vars

\* C14: CreateAccount at a count >= the maximum is answered with the
\* capacity error and creates nothing; below the maximum it creates a new
\* account with balance 0 and answers AC with its id; the number of
\* accounts never exceeds the maximum.
C14_Capacity ==
  [][/\ (Done("COUNT", "AC") /\ running' /\ SqlCount >= MaxAccounts) =>
          /\ wrote' = [conn |-> Head1.conn, msg |-> ER_CAPACITY, val |-> 0]
          /\ accounts' = accounts
          /\ queue' = Tail(queue)
     /\ Done("INSERT", "AC") => ~Present(Head1.account)
     /\ (Done("INSERT", "AC") /\ running') =>
          /\ DOMAIN accounts' = DOMAIN accounts \cup {Head1.account}
          /\ accounts'[Head1.account] = 0
          /\ wrote' = [conn |-> Head1.conn, msg |-> "AC", val |-> Head1.account]
     /\ Cardinality(DOMAIN accounts') <= MaxAccounts
    ]_vars

\* C15: a Deposit or Withdraw whose amount token is not a positive decimal
\* integer (a token of digits only, with a value above 0) is answered with
\* the amount error, changes no balance, and is neither queued nor
\* forwarded.
C15_AmountValidated ==
  [][LET str     == amountStr'
         decimal == /\ str # << >>
                    /\ \A k \in 1..Len(str) : str[k] \in Digits
                    /\ ParseDigits(str, 1, 0) > 0
     IN  (str # << >> /\ ~decimal) =>
            /\ wrote'.msg = ER_AMOUNT
            /\ accounts' = accounts
            /\ queue' = queue
            /\ forwards' = forwards
    ]_vars

\* C16: however the stream is cut into data events, the lines dispatched so
\* far are the delimiter-terminated lines of everything received so far, in
\* order (each as handleCommand gets it, without surrounding blanks), and
\* what follows the last delimiter is in the buffer, not dispatched.
C16_Framing ==
  LET ends  == { i \in 1..Len(consumed) : consumed[i] = LF }
      nth(k) == CHOOSE i \in ends : Cardinality({ j \in ends : j <= i }) = k
      from(k) == IF k = 1 THEN 1 ELSE nth(k - 1) + 1
      last  == IF ends = {} THEN 0 ELSE nth(Cardinality(ends))
  IN  /\ Len(dispatched) = Cardinality(ends)
      /\ \A k \in 1..Cardinality(ends) :
            dispatched[k] = Trim(SubSeq(consumed, from(k), nth(k) - 1))
      /\ buffer = SubSeq(consumed, last + 1, Len(consumed))

\* a line longer than any data event has been dispatched
C16_Witness ==
  \E k \in 1..Len(dispatched) : Len(dispatched[k]) > MaxData

\* C17: no failure of a store operation ends the process: the node is
\* running in every reachable state.
C17_ProcessSurvives ==
  running

\* C18: CheckBalance on an existing local account is answered with the line
\* AB <balance>, <balance> being the stored balance as a decimal number;
\* on an id without account it is answered ER Non-existent account.
C18_BalanceLine ==
  [][(Done("SELECT", "AB") /\ running') =>
       IF Present(Head1.account)
         THEN wrote' = [conn |-> Head1.conn, msg |-> "AB", val |-> accounts[Head1.account]]
         ELSE wrote' = [conn |-> Head1.conn, msg |-> ER_NOACCOUNT, val |-> 0]
    ]_vars

\* C19: the step that ends a client connection for idleness writes the
\* timeout notice to it, the notice is written in no other step, and once
\* the connection is ended nothing is written to it any more: no second
\* notice, no answer of a command or of a forwarded request in flight.
C19_TimeoutOnce ==
  [][\A c \in Conns :
       /\ (~ended[c] /\ ended'[c]) => wrote' = [conn |-> c, msg |-> ER_TIMEOUT, val |-> 0]
       /\ (wrote'.conn = c /\ wrote'.msg = ER_TIMEOUT) => (~ended[c] /\ ended'[c])
       /\ ended[c] => (ended'[c] /\ wrote'.conn # c)
    ]_vars

\* a connection was ended while a query and a forwarded request of it were
\* in flight
C19_Witness ==
  \E c \in Conns :
    /\ ended[c]
    /\ queue # << >> /\ Head1.conn = c
    /\ \E i \in 1..Len(forwards) : forwards[i].conn = c /\ forwards[i].st = "sent"

\* C20: a removal answered AR deletes an account whose balance is 0 at that
\* moment, and a deposit answered AD has stored its amount in an account
\* that exists.
C20_RemovalKeepsFunds ==
  [][/\ (Done("DELETE", "AR") /\ wrote'.msg = "AR" /\ Present(Head1.account)) =>
          accounts[Head1.account] = 0
     /\ (Done("UPDATE", "AD") /\ wrote'.msg = "AD") =>
          /\ Head1.account \in DOMAIN accounts'
          /\ accounts'[Head1.account] >= Head1.amount
    ]_vars

====
